---- MODULE Spec2Model ----
(***************************************************************************)
(* PalAbrazo (src/app.py): a Streamlit page that asks a language model for *)
(* vocabulary lines, parses them into flashcard items, and lets the user   *)
(* top up, remove, and browse/flip the list.                               *)
(*                                                                         *)
(* A Python str is modelled as a sequence of one-character strings, so     *)
(* that strip, startswith, split, lower and splitlines are computed the    *)
(* way the interpreter computes them.  The em dash U+2014 is the one       *)
(* non-ASCII character the program looks for; it is written EMDASH.        *)
(*                                                                         *)
(* One action of the model is one user interaction handled to completion:  *)
(* the script run that the click triggers, and the rerun that st.rerun()   *)
(* starts, up to the page the user sees next.                              *)
(***************************************************************************)
EXTENDS Integers, Sequences, FiniteSets, TLC

VARIABLES
    last_items,   \* st.session_state["last_items"]: sequence of items
    last_meta,    \* st.session_state["last_meta"]: {} or the four-key dict
    card_index,   \* st.session_state["card_index"]
    show_back,    \* st.session_state["show_back"]
    page,         \* how far the last script run got: "full", or where it stopped
    idx,          \* <<i>> when the last run evaluated items[i], else <<>>
    action,       \* the handler that ran last and its outcome
    reply,        \* the reply the generator gave the last action, NoCall when
                  \* it called no generator, CallFailed when the call raised
    before,       \* where the cursor was when a list-changing action started
    raw_text,     \* response.choices[0].message.content the last action parsed,
                  \* NoText when it parsed none
    request,      \* what the last action asked of the generator and got
                  \* answered, NoRequest when it got no answer
    rm,           \* the row whose remove button the last action handled, else NoRow
    removes       \* remove clicks since the last generation (at most MaxRemoves)

vars == <<last_items, last_meta, card_index, show_back, page, idx, action, reply, before,
         raw_text, request, rm, removes>>

(***************************************************************************)
(* Characters and Python's str methods                                     *)
(***************************************************************************)
SP == " "
NL == "\n"
CR == "\r"
TAB == "\t"
HYPHEN == "-"
EMDASH == "EM"

Uppers == <<"A","B","C","D","E","F","G","H","I","J","K","L","M",
            "N","O","P","Q","R","S","T","U","V","W","X","Y","Z">>
Lowers == <<"a","b","c","d","e","f","g","h","i","j","k","l","m",
            "n","o","p","q","r","s","t","u","v","w","x","y","z">>

\* str.isspace for one character
IsSpace(c) == c \in {SP, TAB, NL, CR}

\* line boundaries of str.splitlines
IsLineBreak(c) == c \in {NL, CR}

RECURSIVE LStrip(_)
LStrip(s) == IF s = <<>> \/ ~IsSpace(Head(s)) THEN s ELSE LStrip(Tail(s))

RECURSIVE RStrip(_)
RStrip(s) == IF s = <<>> \/ ~IsSpace(s[Len(s)]) THEN s
             ELSE RStrip(SubSeq(s, 1, Len(s) - 1))

\* str.lstrip()
StripLeft(s) == LStrip(s)

\* str.strip()
Strip(s) == RStrip(LStrip(s))

\* str.startswith(p)
StartsWith(s, p) == Len(s) >= Len(p) /\ SubSeq(s, 1, Len(p)) = p

\* 1-based position of the first occurrence of sep in s, 0 when absent
\* (str.find, shifted by one)
Find(s, sep) ==
    LET hits == { i \in 1..(Len(s) - Len(sep) + 1) :
                    SubSeq(s, i, i + Len(sep) - 1) = sep }
    IN  IF hits = {} THEN 0
        ELSE CHOOSE i \in hits : \A j \in hits : i <= j

\* `sep in s`
Contains(s, sep) == Find(s, sep) # 0

\* s.rsplit(sep, 1): the split at the last occurrence
SplitLast(s, sep) ==
    LET hits == { i \in 1..(Len(s) - Len(sep) + 1) :
                    SubSeq(s, i, i + Len(sep) - 1) = sep }
        i == CHOOSE h \in hits : \A j \in hits : j <= h
    IN  <<SubSeq(s, 1, i - 1), SubSeq(s, i + Len(sep), Len(s))>>

\* s.split(sep, 1) for a string that contains sep: <<left, right>>
SplitFirst(s, sep) ==
    LET i == Find(s, sep)
    IN  <<SubSeq(s, 1, i - 1), SubSeq(s, i + Len(sep), Len(s))>>

\* str.lower() on one character
LowerChar(c) ==
    IF \E i \in 1..Len(Uppers) : Uppers[i] = c
    THEN Lowers[CHOOSE i \in 1..Len(Uppers) : Uppers[i] = c]
    ELSE c

\* str.lower()
Lower(s) == [i \in 1..Len(s) |-> LowerChar(s[i])]

\* str.upper() on one character (used only to build generator texts)
UpperChar(c) ==
    IF \E i \in 1..Len(Lowers) : Lowers[i] = c
    THEN Uppers[CHOOSE i \in 1..Len(Lowers) : Lowers[i] = c]
    ELSE c

\* positions where a line boundary starts ("\r\n" is one boundary)
BreakStarts(text) ==
    { i \in 1..Len(text) :
        /\ IsLineBreak(text[i])
        /\ ~(text[i] = NL /\ i > 1 /\ text[i - 1] = CR) }

\* position of the first character after the boundary that starts at i
AfterBreak(text, i) ==
    IF text[i] = CR /\ i < Len(text) /\ text[i + 1] = NL THEN i + 2 ELSE i + 1

\* str.splitlines(): the text between boundaries, and no empty last line
\* after a trailing boundary
SplitLines(text) ==
    LET B == BreakStarts(text)
        n == Cardinality(B)
        brk == [k \in 1..n |-> CHOOSE i \in B : Cardinality({j \in B : j < i}) = k - 1]
        from(k) == IF k = 1 THEN 1 ELSE AfterBreak(text, brk[k - 1])
        closed == [k \in 1..n |-> SubSeq(text, from(k), brk[k] - 1)]
        last == SubSeq(text, from(n + 1), Len(text))
    IN  IF last = <<>> THEN closed ELSE Append(closed, last)

RECURSIVE SplitWSFrom(_, _, _)
SplitWSFrom(rest, cur, acc) ==
    IF rest = <<>> THEN (IF cur = <<>> THEN acc ELSE Append(acc, cur))
    ELSE IF IsSpace(Head(rest))
         THEN SplitWSFrom(Tail(rest), <<>>,
                          IF cur = <<>> THEN acc ELSE Append(acc, cur))
         ELSE SplitWSFrom(Tail(rest), Append(cur, Head(rest)), acc)

\* str.split() with no argument: the maximal runs of non-whitespace
SplitWS(s) == SplitWSFrom(s, <<>>, <<>>)

RECURSIVE JoinSP(_)
\* " ".join(words)
JoinSP(words) ==
    IF words = <<>> THEN <<>>
    ELSE IF Len(words) = 1 THEN words[1]
    ELSE words[1] \o <<SP>> \o JoinSP(Tail(words))

(***************************************************************************)
(* Helpers of app.py                                                       *)
(***************************************************************************)
Marker == <<HYPHEN, SP>>              \* "- "
Separator == <<SP, EMDASH, SP>>       \* " — "

\* the body of the for loop of parse_items for one line: the items it appends
\* parse_items' loop body without the .strip() of left and right
ParseLineNoTrim(rawline) ==
    LET line == Strip(rawline)
    IN  IF ~StartsWith(line, Marker) THEN <<>>
        ELSE LET rest == SubSeq(line, 3, Len(line))
             IN  IF ~Contains(rest, Separator) THEN <<>>
                 ELSE LET lr == SplitFirst(rest, Separator)
                      IN  << [front |-> lr[1], back |-> lr[2]] >>

ParseLine(rawline) ==
    LET line == Strip(rawline)
    IN  IF ~StartsWith(line, Marker) THEN <<>>
        ELSE LET rest == SubSeq(line, 3, Len(line))
             IN  IF ~Contains(rest, Separator) THEN <<>>
                 ELSE LET lr == SplitFirst(rest, Separator)
                      IN  << [front |-> Strip(lr[1]), back |-> Strip(lr[2])] >>

RECURSIVE ParseLines(_)
ParseLines(lines) ==
    IF lines = <<>> THEN <<>>
    ELSE ParseLine(Head(lines)) \o ParseLines(Tail(lines))

parse_items(text) == ParseLines(SplitLines(text))
\* norm_key without .lower()
norm_keyCaseSensitive(s) == JoinSP(SplitWS(Strip(s)))


norm_key(s) == JoinSP(SplitWS(Lower(Strip(s))))

desired_count_for(generate_type) == IF generate_type = "Phrases" THEN 10 ELSE 20

(***************************************************************************)
(* Bounds of the model                                                     *)
(***************************************************************************)
Few == 2          \* size of a short generator reply, and the shifted start
Over == 1         \* how many lines more than requested a long reply holds
MaxRemoves == 1   \* remove clicks modelled on one generated list
MaxTokens == 4    \* pieces a line of an arbitrary generator text is built from

(***************************************************************************)
(* What the user can submit (the selectboxes and the text input)           *)
(***************************************************************************)
GenerateTypes == {"Words", "Verbs", "Phrases"}
Languages == {"Spanish", "French", "Italian", "German", "Catalan"}
Levels == {"A1", "A2", "B1", "B2", "C1", "C2"}
Topics == { <<>>, <<SP>>, <<"s", "k", "i">>, <<"a", SP, "b">> }

\* the submissions the model makes: every type, with a language, a level
\* and a topic that differ from one submission to the next
Forms ==
    { [generate_type |-> "Words", target_language |-> "Spanish",
       cefr_level |-> "B1", user_input |-> <<"s", "k", "i">>],
      [generate_type |-> "Verbs", target_language |-> "French",
       cefr_level |-> "A2", user_input |-> <<"s", "k", "i">>],
      [generate_type |-> "Phrases", target_language |-> "Catalan",
       cefr_level |-> "C1", user_input |-> <<"a", SP, "b">>],
      [generate_type |-> "Words", target_language |-> "Spanish",
       cefr_level |-> "B1", user_input |-> <<>>],
      [generate_type |-> "Phrases", target_language |-> "German",
       cefr_level |-> "B1", user_input |-> <<SP>>] }

(***************************************************************************)
(* What the generator can reply.  The reply is free text; the model draws  *)
(* it from five shapes: the empty reply, a few clean lines, one line fewer *)
(* than requested, more lines than requested over a vocabulary shifted by  *)
(* Few words, and a few lines surrounded by lines the parser has to cope   *)
(* with.                                                                   *)
(***************************************************************************)
Word(k) == IF k < 26 THEN <<Lowers[k + 1]>>
           ELSE <<Lowers[(k \div 26)], Lowers[(k % 26) + 1]>>

Line(front, back) == Marker \o front \o Separator \o back

WellFormed(k) == Line(Word(k), <<"x">>)

Block(s, n) == [i \in 1..n |-> WellFormed(s + i - 1)]

\* lines parse_items drops: no marker, a hyphen for the dash, a blank line,
\* and a line that ends in the separator
NoiseLines(s) ==
    << <<"o", "k", ":">>,
       Marker \o Word(s) \o <<SP, HYPHEN, SP, "x">>,
       <<>>,
       Marker \o Word(s) \o <<SP, EMDASH, SP>> >>

\* lines parse_items keeps: a front that differs from word s only by case,
\* two fronts that differ only by case and inner whitespace, an indented
\* line, a line with more spaces around its first separator and a second
\* separator, and two lines whose front is empty
OddLines(s) ==
    << Line(<<UpperChar(Word(s)[1])>> \o Tail(Word(s)), <<"y">>),
       <<SP, SP>> \o Line(<<"p", SP, SP, "Q">>, <<"x">>) \o <<SP>>,
       Line(<<"P", TAB, "q", SP>>, <<SP, "y", SP, EMDASH, SP, "z">>),
       Marker \o Separator \o <<"z">>,
       Marker \o Separator \o <<"w">> >>

RECURSIVE JoinNL(_)
JoinNL(lines) ==
    IF lines = <<>> THEN <<>>
    ELSE Head(lines) \o <<NL>> \o JoinNL(Tail(lines))

Text(v, s, n) ==
    IF v = "plain" THEN JoinNL(Block(s, n))
    ELSE JoinNL(NoiseLines(s) \o Block(s, n) \o OddLines(s))

\* a reply is drawn by its shape: the variant, the first word, the number
\* of clean lines
Shapes(item_count) ==
    { [v |-> "plain", s |-> 0, n |-> 0],
      [v |-> "plain", s |-> 0, n |-> 1],
      [v |-> "plain", s |-> 0, n |-> Few],
      [v |-> "plain", s |-> 0, n |-> IF item_count > 0 THEN item_count - 1 ELSE 0],
      [v |-> "plain", s |-> Few, n |-> item_count + Over],
      [v |-> "odd", s |-> 0, n |-> Few] }

\* every reply the model draws: a request is for 0 to 20 items
AllShapes == UNION { Shapes(item_count) : item_count \in 0..20 }

\* response.choices[0].message.content of a reply
RawText == [r \in AllShapes |-> Text(r.v, r.s, r.n)]

\* parse_items(raw_text) of a reply, evaluated once per reply
Parsed == [r \in AllShapes |-> parse_items(RawText[r])]

\* norm_key(front) of every front the replies hold, evaluated once per front
KeyTable ==
    [front \in UNION { { Parsed[r][i].front : i \in 1..Len(Parsed[r]) } : r \in AllShapes }
        |-> norm_key(front)]

Key(front) == KeyTable[front]

\* what `reply` holds when the last action had no reply to parse
NoCall == [v |-> "NoCall", s |-> 0, n |-> 0]
CallFailed == [v |-> "CallFailed", s |-> 0, n |-> 0]

\* the cursor as a list-changing handler finds it: at rest on the first
\* card's front, on the row being removed (not the first), or elsewhere
CursorBefore(row) ==
    IF row = card_index /\ row > 0 THEN "on_row"
    ELSE IF card_index # 0 \/ show_back THEN "moved"
    ELSE "rest"

NoRow == 0 - 1

NoText == <<"None">>

NoRequest == [item_count |-> 0 - 1, generate_type |-> "", target_language |-> "",
              cefr_level |-> "", topic |-> <<>>]

\* an action that gets no reply and handles no remove button
NoReply(r) ==
    /\ reply' = r
    /\ raw_text' = NoText
    /\ request' = NoRequest
    /\ rm' = NoRow

\* an action that parses the reply r to the request req
Answered(r, req) ==
    /\ reply' = r
    /\ raw_text' = RawText[r]
    /\ request' = req
    /\ rm' = NoRow

(***************************************************************************)
(* Session state                                                           *)
(***************************************************************************)
EmptyMeta == <<>>     \* the dict {}

\* dict.get(key, default)
MetaGet(meta, key, default) == IF key \in DOMAIN meta THEN meta[key] ELSE default

Init ==
    /\ last_items = <<>>
    /\ last_meta = EmptyMeta
    /\ card_index = 0
    /\ show_back = FALSE
    /\ page = "full"
    /\ idx = <<>>
    /\ action = "start"
    /\ reply = NoCall
    /\ raw_text = NoText
    /\ request = NoRequest
    /\ rm = NoRow
    /\ before = "none"
    /\ removes = 0

(***************************************************************************)
(* The Flashcards tab, which every complete script run executes            *)
(***************************************************************************)
\* card_index after "Keep index in range if list length changes"
ClampIndex(ci, items) ==
    IF items = <<>> THEN ci
    ELSE IF ci >= Len(items) THEN 0 ELSE ci

\* the tab reading items[idx] without the `if not items` test
CardShownAlways(ci, items) == <<ClampIndex(ci, items)>>

\* the index of items[idx], as a one-element sequence; empty when the tab
\* shows the "Generate a list first" notice
CardShown(ci, items) ==
    IF items = <<>> THEN <<>> ELSE <<ClampIndex(ci, items)>>

\* a script run that reaches its end with the session holding items and ci
RunToEnd(items, ci) ==
    /\ card_index' = ClampIndex(ci, items)
    /\ idx' = CardShown(ci, items)
    /\ page' = "full"

\* a script run ended by st.stop() or an uncaught exception
Halt(where) ==
    /\ idx' = <<>>
    /\ page' = where

(***************************************************************************)
(* Generate tab: the form                                                  *)
(***************************************************************************)
\* `not user_input`, without the strip
IsBlankNoStrip(user_input) == user_input = <<>>

\* `not user_input.strip()`
IsBlank(user_input) == Strip(user_input) = <<>>

\* Generate submitted with a blank topic: a warning, then the rest of the
\* script runs as on any other run.
GenerateBlank ==
    \E form \in Forms :
        /\ IsBlank(form.user_input)
        /\ RunToEnd(last_items, card_index)
        /\ before' = "none"
        /\ action' = "generate_blank"
        /\ NoReply(NoCall)
        /\ UNCHANGED <<last_items, last_meta, show_back, removes>>

\* Generate submitted, and client.chat.completions.create raises: st.error
\* and st.stop().  (A reply whose content is None ends the run at the same
\* place: parse_items raises before anything is stored.)
GenerateFail ==
    \E form \in Forms :
        /\ ~IsBlank(form.user_input)
        /\ Halt("stopped_generate")
        /\ before' = "none"
        /\ action' = "generate_fail"
        /\ NoReply(CallFailed)
        /\ UNCHANGED <<last_items, last_meta, card_index, show_back, removes>>

\* what the generate handler puts into the prompt and the user message
GenerateRequest(form) ==
    [item_count |-> desired_count_for(form.generate_type),
     generate_type |-> form.generate_type,
     target_language |-> form.target_language,
     cefr_level |-> form.cefr_level,
     topic |-> form.user_input]

\* the generate handler extending the list instead of replacing it
GenerateOkExtends ==
    \E form \in Forms :
        /\ ~IsBlank(form.user_input)
        /\ LET generate_type == form.generate_type
               target_language == form.target_language
               cefr_level == form.cefr_level
               user_input == form.user_input
               item_count == desired_count_for(generate_type)
           IN  \E r \in Shapes(item_count) :
                 LET items == last_items \o Parsed[r]
                 IN  /\ last_items' = items
                     /\ last_meta' = [generate_type |-> generate_type,
                                      target_language |-> target_language,
                                      cefr_level |-> cefr_level,
                                      topic |-> user_input]
                     /\ show_back' = FALSE
                     /\ RunToEnd(items, 0)
                     /\ before' = CursorBefore(NoRow)
                     /\ action' = "generate_ok"
                     /\ Answered(r, GenerateRequest(form))
                     /\ removes' = 0

\* Generate submitted, and the generator replies with raw_text
GenerateOk ==
    \E form \in Forms :
        /\ ~IsBlank(form.user_input)
        /\ LET generate_type == form.generate_type
               target_language == form.target_language
               cefr_level == form.cefr_level
               user_input == form.user_input
               item_count == desired_count_for(generate_type)
           IN  \E r \in Shapes(item_count) :
                 LET items == Parsed[r]
                 IN  /\ last_items' = items
                     /\ last_meta' = [generate_type |-> generate_type,
                                      target_language |-> target_language,
                                      cefr_level |-> cefr_level,
                                      topic |-> user_input]
                     /\ show_back' = FALSE
                     /\ RunToEnd(items, 0)
                     /\ before' = CursorBefore(NoRow)
                     /\ action' = "generate_ok"
                     /\ Answered(r, GenerateRequest(form))
                     /\ removes' = 0

(***************************************************************************)
(* Generate tab: top up                                                    *)
(***************************************************************************)
\* `i.get("front")` is truthy
HasFront(it) == it.front # <<>>

\* seen = set(): the merge starting without the keys of the list
SeenKeysNone(items) == {}

\* seen = {norm_key(i["front"]) for i in merged if i.get("front")}
SeenKeys(items) == { Key(items[i].front) : i \in { j \in 1..Len(items) : HasFront(items[j]) } }
RECURSIVE MergeLoopNoAdd(_, _, _)
\* the loop without seen.add(k)
MergeLoopNoAdd(merged, seen, new_items) ==
    IF new_items = <<>> THEN merged
    ELSE LET it == Head(new_items)
             k == Key(it.front)
         IN  IF k # <<>> /\ k \notin seen
             THEN MergeLoopNoAdd(Append(merged, it), seen, Tail(new_items))
             ELSE MergeLoopNoAdd(merged, seen, Tail(new_items))

RECURSIVE MergeLoop(_, _, _)
\* for it in new_items: k = norm_key(it["front"]); if k and k not in seen: ...
MergeLoop(merged, seen, new_items) ==
    IF new_items = <<>> THEN merged
    ELSE LET it == Head(new_items)
             k == Key(it.front)
         IN  IF k # <<>> /\ k \notin seen
             THEN MergeLoop(Append(merged, it), seen \cup {k}, Tail(new_items))
             ELSE MergeLoop(merged, seen, Tail(new_items))
\* merged[-desired_count:]
TruncateTail(merged, desired_count) ==
    SubSeq(merged, IF Len(merged) < desired_count THEN 1 ELSE Len(merged) - desired_count + 1,
           Len(merged))

\* merged, not sliced
TruncateNone(merged, desired_count) == merged

\* merged[:desired_count]
Truncate(merged, desired_count) ==
    SubSeq(merged, 1, IF Len(merged) < desired_count THEN Len(merged) ELSE desired_count)

\* the list the top-up stores
TopUpMerge(existing, new_items, desired_count) ==
    Truncate(MergeLoop(existing, SeenKeys(existing), new_items), desired_count)

\* abs(desired_count - len(items))
MissingAbs(desired_count, items) ==
    IF desired_count - Len(items) > 0 THEN desired_count - Len(items)
    ELSE Len(items) - desired_count

\* max(0, desired_count - len(items))
Missing(desired_count, items) ==
    IF desired_count - Len(items) > 0 THEN desired_count - Len(items) ELSE 0

\* current_type = meta.get("generate_type", generate_type)
CurrentType(meta, generate_type) == MetaGet(meta, "generate_type", generate_type)

\* the Top up button is on the page and enabled
TopUpEnabled(current_type) ==
    /\ page \in {"full", "stopped_topup"}
    /\ last_items # <<>>
    /\ Missing(desired_count_for(current_type), last_items) > 0
\* TopUpFail with the cursor reset placed before the generator call
TopUpFailResets ==
    \E current_type \in { CurrentType(last_meta, generate_type) : generate_type \in GenerateTypes } :
        /\ TopUpEnabled(current_type)
        /\ Halt("stopped_topup")
        /\ card_index' = 0
        /\ show_back' = FALSE
        /\ before' = "none"
        /\ action' = "topup_fail"
        /\ NoReply(CallFailed)
        /\ UNCHANGED <<last_items, last_meta, removes>>

\* Top up clicked, and the generator call raises: st.error and st.stop()
TopUpFail ==
    \E current_type \in { CurrentType(last_meta, generate_type) : generate_type \in GenerateTypes } :
        /\ TopUpEnabled(current_type)
        /\ Halt("stopped_topup")
        /\ before' = "none"
        /\ action' = "topup_fail"
        /\ NoReply(CallFailed)
        /\ UNCHANGED <<last_items, last_meta, card_index, show_back, removes>>

General == <<"G", "e", "n", "e", "r", "a", "l">>

\* the top-up handler taking the prompt's values from the form's widgets
TopUpRequestFromForm(meta, form, missing) ==
    [item_count |-> missing,
     generate_type |-> form.generate_type,
     target_language |-> form.target_language,
     cefr_level |-> form.cefr_level,
     topic |-> form.user_input]

\* what the top-up handler puts into the prompt and the user message; form
\* holds the values of the form's widgets, the defaults of meta.get
TopUpRequest(meta, form, missing) ==
    [item_count |-> missing,
     generate_type |-> CurrentType(meta, form.generate_type),
     target_language |-> MetaGet(meta, "target_language", form.target_language),
     cefr_level |-> MetaGet(meta, "cefr_level", form.cefr_level),
     topic |-> IF MetaGet(meta, "topic", <<>>) # <<>> THEN MetaGet(meta, "topic", <<>>)
               ELSE General]

\* Top up clicked, and the generator replies with new_raw
TopUpOk ==
    \E current_type \in { CurrentType(last_meta, generate_type) : generate_type \in GenerateTypes } :
        /\ TopUpEnabled(current_type)
        /\ LET desired_count == desired_count_for(current_type)
               missing == Missing(desired_count, last_items)
           IN  \E r \in Shapes(missing),
                  req \in { TopUpRequest(last_meta, form, missing) : form \in Forms } :
                 LET new_items == Parsed[r]
                     merged == TopUpMerge(last_items, new_items, desired_count)
                 IN  /\ last_items' = merged
                     /\ show_back' = FALSE
                     /\ RunToEnd(merged, 0)
                     /\ before' = CursorBefore(NoRow)
                     /\ action' = "topup_ok"
                     /\ Answered(r, req)
                     /\ UNCHANGED <<last_meta, removes>>

(***************************************************************************)
(* Generate tab: the remove button of row i (0-based, as in the source)    *)
(***************************************************************************)
\* list.pop(i)
\* updated.pop() : the last row goes, whichever button was clicked
PopLast(items, i) == SubSeq(items, 1, Len(items) - 1)

Pop(items, i) == SubSeq(items, 1, i) \o SubSeq(items, i + 2, Len(items))

\* the rows whose button the model clicks: the first two and the last
RemoveRows(items) == { i \in {0, 1, Len(items) - 1} : 0 <= i /\ i < Len(items) }
\* Remove without the two cursor assignments
RemoveKeepsCursor ==
    \E i \in RemoveRows(last_items) :
        /\ page = "full"
        /\ removes < MaxRemoves
        /\ LET updated == Pop(last_items, i)
           IN  /\ last_items' = updated
               /\ RunToEnd(updated, card_index)
        /\ before' = CursorBefore(i)
        /\ action' = "remove"
        /\ reply' = NoCall
        /\ raw_text' = NoText
        /\ request' = NoRequest
        /\ rm' = i
        /\ removes' = removes + 1
        /\ UNCHANGED <<last_meta, show_back>>


Remove ==
    \E i \in RemoveRows(last_items) :
        /\ page = "full"
        /\ removes < MaxRemoves
        /\ LET updated == Pop(last_items, i)
           IN  /\ last_items' = updated
               /\ show_back' = FALSE
               /\ RunToEnd(updated, 0)
        /\ before' = CursorBefore(i)
        /\ action' = "remove"
        /\ reply' = NoCall
        /\ raw_text' = NoText
        /\ request' = NoRequest
        /\ rm' = i
        /\ removes' = removes + 1
        /\ UNCHANGED last_meta

(***************************************************************************)
(* Flashcards tab: the card button and the three buttons under it.  They   *)
(* are on the page when the last run reached the tab with a list to show.  *)
(***************************************************************************)
CardOnPage == page = "full" /\ last_items # <<>>
\* idx - 1, without the wrap
PrevIndexNoWrap(i, total) == i - 1

\* (idx - 1) % total
PrevIndex(i, total) == (i - 1) % total

\* (idx + 1) % total
NextIndex(i, total) == (i + 1) % total

\* the run up to the button: total = len(items), clamp, idx = card_index
IdxOfRun == ClampIndex(card_index, last_items)
\* the card button showing the back instead of toggling
fc_cardShowsBack ==
    /\ CardOnPage
    /\ show_back' = TRUE
    /\ RunToEnd(last_items, IdxOfRun)
    /\ before' = "none"
    /\ action' = "fc_card"
    /\ NoReply(NoCall)
    /\ UNCHANGED <<last_items, last_meta, removes>>


fc_card ==
    /\ CardOnPage
    /\ show_back' = ~show_back
    /\ RunToEnd(last_items, IdxOfRun)
    /\ before' = "none"
    /\ action' = "fc_card"
    /\ NoReply(NoCall)
    /\ UNCHANGED <<last_items, last_meta, removes>>

fc_flip ==
    /\ CardOnPage
    /\ show_back' = ~show_back
    /\ RunToEnd(last_items, IdxOfRun)
    /\ before' = "none"
    /\ action' = "fc_flip"
    /\ NoReply(NoCall)
    /\ UNCHANGED <<last_items, last_meta, removes>>

fc_prev ==
    /\ CardOnPage
    /\ show_back' = FALSE
    /\ RunToEnd(last_items, PrevIndex(IdxOfRun, Len(last_items)))
    /\ before' = "none"
    /\ action' = "fc_prev"
    /\ NoReply(NoCall)
    /\ UNCHANGED <<last_items, last_meta, removes>>
\* Next without show_back = False
fc_nextKeepsFace ==
    /\ CardOnPage
    /\ RunToEnd(last_items, NextIndex(IdxOfRun, Len(last_items)))
    /\ before' = "none"
    /\ action' = "fc_next"
    /\ NoReply(NoCall)
    /\ UNCHANGED <<last_items, last_meta, show_back, removes>>


fc_next ==
    /\ CardOnPage
    /\ show_back' = FALSE
    /\ RunToEnd(last_items, NextIndex(IdxOfRun, Len(last_items)))
    /\ before' = "none"
    /\ action' = "fc_next"
    /\ NoReply(NoCall)
    /\ UNCHANGED <<last_items, last_meta, removes>>

Next ==
    \/ GenerateBlank
    \/ GenerateFail
    \/ GenerateOk
    \/ TopUpFail
    \/ TopUpOk
    \/ Remove
    \/ fc_card
    \/ fc_flip
    \/ fc_prev
    \/ fc_next

Spec == Init /\ [][Next]_vars

(***************************************************************************)
(* The parser over arbitrary short texts: the first submission of a        *)
(* session, answered with any text of ParseTexts                           *)
(***************************************************************************)
\* the pieces of a line: the marker, the separator and their fragments
Tokens == { Marker, Separator, <<"a">>, <<SP>>, <<HYPHEN>>, <<EMDASH>> }

RECURSIVE LinesOfTokens(_)
\* every line made of at most k pieces
LinesOfTokens(k) ==
    IF k = 0 THEN { <<>> }
    ELSE LET shorter == LinesOfTokens(k - 1)
         IN  shorter \cup { l \o t : l \in shorter, t \in Tokens }

TokenLines == LinesOfTokens(MaxTokens)

\* a well-formed line to stand before or after an arbitrary one
ItemLine == Marker \o <<"B">> \o Separator \o <<"a">>

\* one arbitrary line, alone or with ItemLine after a line boundary
\* ("\n", "\r\n" or "\r") or before one
ParseTexts ==
    TokenLines
    \cup { l \o brk \o ItemLine : l \in TokenLines, brk \in { <<NL>>, <<CR, NL>>, <<CR>> } }
    \cup { ItemLine \o <<NL>> \o l : l \in TokenLines }

TextReply == [v |-> "text", s |-> 0, n |-> 0]

\* Generate submitted for the first time, and the generator replies with
\* a text of ParseTexts
GenerateText ==
    /\ last_meta = EmptyMeta
    /\ \E form \in Forms, text \in ParseTexts :
        /\ ~IsBlank(form.user_input)
        /\ LET items == parse_items(text)
           IN  /\ last_items' = items
               /\ last_meta' = [generate_type |-> form.generate_type,
                                target_language |-> form.target_language,
                                cefr_level |-> form.cefr_level,
                                topic |-> form.user_input]
               /\ show_back' = FALSE
               /\ RunToEnd(items, 0)
               /\ before' = CursorBefore(NoRow)
               /\ action' = "generate_ok"
               /\ reply' = TextReply
               /\ raw_text' = text
               /\ request' = GenerateRequest(form)
               /\ rm' = NoRow
               /\ removes' = 0

ParseNext == GenerateText

ParseSpec == Init /\ [][ParseNext]_vars

Range(seq) == { seq[i] : i \in 1..Len(seq) }

TypeOK ==
    /\ \A form \in Forms :
          /\ form.generate_type \in GenerateTypes
          /\ form.target_language \in Languages
          /\ form.cefr_level \in Levels
          /\ form.user_input \in Topics
    /\ card_index \in Int
    /\ show_back \in BOOLEAN
    /\ page \in {"full", "stopped_generate", "stopped_topup"}
    /\ removes \in 0..MaxRemoves
    /\ rm \in {NoRow} \cup 0..19
    /\ request.item_count \in {0 - 1} \cup 0..20
    /\ request.generate_type \in GenerateTypes \cup {""}
    /\ raw_text \in Seq({SP, NL, CR, TAB, HYPHEN, EMDASH} \cup Range(Lowers) \cup Range(Uppers))
          \/ raw_text = NoText

(***************************************************************************)
(* Properties                                                              *)
(***************************************************************************)
RECURSIVE KeysOf(_)
\* the normalized key of each entry's front, in list order
KeysOf(items) ==
    IF items = <<>> THEN <<>>
    ELSE <<Key(Head(items).front)>> \o KeysOf(Tail(items))

\* the pairs of entries, the earlier first, that both have a front and
\* whose keys (keys[i] for entry i) are equal
PairsWithOneKey(items, keys) ==
    UNION { { <<items[i], items[j]>> :
                j \in { k \in (i + 1)..Len(items) :
                          items[k].front # <<>> /\ keys[k] = keys[i] } } :
            i \in { k \in 1..Len(items) : items[k].front # <<>> } }

\* the pairs of entries, the earlier first, that have a non-empty front and
\* share a normalized key
DupPairs(items) == PairsWithOneKey(items, KeysOf(items))

RECURSIVE SelectRows(_, _, _)
\* the entries of seq at the positions in picked, from position j on
SelectRows(seq, picked, j) ==
    IF j > Len(seq) THEN <<>>
    ELSE (IF j \in picked THEN <<seq[j]>> ELSE <<>>) \o SelectRows(seq, picked, j + 1)

\* the incoming items whose key (keys[j]) is not empty, is not in taken, and
\* is the key of no earlier incoming item
AcceptedOf(incoming, keys, taken) ==
    SelectRows(incoming,
               { j \in 1..Len(incoming) :
                   /\ keys[j] # <<>>
                   /\ keys[j] \notin taken
                   /\ \A i \in 1..(j - 1) : keys[i] # keys[j] },
               1)

\* the incoming items a top-up accepts, in incoming order: the key is not
\* empty, no existing entry with a front has it, and no earlier incoming item
\* has it (an earlier incoming item with that key was accepted, or was
\* dropped because a still earlier one or an existing entry has the key)
Accepted(existing, incoming) ==
    AcceptedOf(incoming, KeysOf(incoming),
               { Key(existing[e].front) :
                   e \in { d \in 1..Len(existing) : existing[d].front # <<>> } })

\* the first n entries of seq, all of them when it has fewer
FirstN(seq, n) == SubSeq(seq, 1, IF Len(seq) < n THEN Len(seq) ELSE n)

\* no entry of new after the first Len(old) equals, once lowercased, the
\* lowercased front of an entry of old that has a front
NoCaseVariantAppended(old, new) ==
    \A a \in (Len(old) + 1)..Len(new) :
        \A e \in 1..Len(old) :
            old[e].front # <<>> => Lower(new[a].front) # Lower(old[e].front)

\* the target size of the list the meta describes
CapOf(meta) == IF meta.generate_type = "Phrases" THEN 10 ELSE 20

RECURSIVE IterNext(_, _, _)
\* the index after k clicks on Next
IterNext(i, n, k) == IF k = 0 THEN i ELSE IterNext(NextIndex(i, n), n, k - 1)

\* C1: whenever the list is not empty and the Flashcards tab renders a card,
\* the index it dereferences is at least 0 and less than the length of the
\* list.
C1_IndexInRange ==
    (last_items # <<>> /\ idx # <<>>) => (0 <= idx[1] /\ idx[1] < Len(last_items))

\* Previous clicked on the first card of a list of three or more: the last
\* card is rendered.
C1_Witness ==
    /\ action = "fc_prev"
    /\ Len(last_items) >= 3
    /\ idx = <<Len(last_items) - 1>>

\* C2 (as claimed): in every reachable state no two entries with a non-empty
\* front share a normalized key.
C2_NoDuplicateKeys == DupPairs(last_items) = {}

\* C2 (amended): a top-up and a removal never bring two entries with the
\* same normalized key into the list: two entries with a front that share a
\* key after the action were both in the list, in that order, before it.
C2_TopUpAndRemoveAddNoDuplicate ==
    [][action' \in {"topup_ok", "remove"} =>
          DupPairs(last_items') \subseteq DupPairs(last_items)]_vars

\* A top-up whose reply holds two fronts with one key, "p  Q" and "P<tab>q",
\* and a front "A" while "a" is in the list: the first of the pair is the
\* last entry, the other two are not in the list.
C2_Witness ==
    /\ action = "topup_ok"
    /\ reply = [v |-> "odd", s |-> 0, n |-> Few]
    /\ last_items[Len(last_items)].front = <<"p", SP, SP, "Q">>
    /\ \E i \in 1..Len(last_items) : last_items[i].front = <<"a">>
    /\ \A i \in 1..Len(last_items) :
          last_items[i].front \notin { <<"P", TAB, "q">>, <<"A">> }

\* C3: the list a top-up stores starts with the list it found, entry by
\* entry.
C3_TopUpKeepsPrefix ==
    [][action' = "topup_ok" =>
          /\ Len(last_items') >= Len(last_items)
          /\ SubSeq(last_items', 1, Len(last_items)) = last_items]_vars

\* A top-up that found a list whose first entry the reply does not repeat,
\* filled the list to its cap and left accepted items out.
C3_Witness ==
    /\ action = "topup_ok"
    /\ Len(last_items) = CapOf(last_meta)
    /\ LET incoming == Parsed[reply]
       IN  /\ last_items[1] \notin Range(incoming)
           /\ last_items[Len(last_items)] \in Range(incoming)
           /\ incoming[Len(incoming)] \notin Range(last_items)

\* C4: the list a top-up stores holds at most 10 entries when the list is a
\* list of Phrases and at most 20 otherwise.
C4_TopUpWithinCap ==
    action = "topup_ok" =>
        Len(last_items) <= (IF last_meta.generate_type = "Phrases" THEN 10 ELSE 20)

\* A top-up of a list of Verbs whose reply ended with an item that would
\* have been accepted: 20 entries are stored, and that item is not one.
C4_Witness ==
    /\ action = "topup_ok"
    /\ last_meta.generate_type = "Verbs"
    /\ Len(last_items) = 20
    /\ LET incoming == Parsed[reply]
           k == Key(incoming[Len(incoming)].front)
       IN  k # <<>> /\ k \notin SeenKeys(last_items)

\* C5: the list a top-up stores is the list it found followed by the
\* accepted incoming items in incoming order, cut at the cap; an item is
\* accepted iff its key is not empty and is the key of no existing entry
\* with a front and of no incoming item accepted before it.  Keys compare
\* without regard to case: no appended entry equals, once lowercased, the
\* lowercased front of an entry the top-up found.
C5_TopUpAcceptsNewKeys ==
    [][action' = "topup_ok" =>
          /\ last_items' = FirstN(last_items \o Accepted(last_items, Parsed[reply']),
                                  CapOf(last_meta))
          /\ NoCaseVariantAppended(last_items, last_items')]_vars

\* A top-up of a list without duplicates whose reply repeats an existing
\* front in another case, holds items without a front, and brings a new
\* item: the new one is the last entry, the others are not in the list.
C5_Witness ==
    /\ action = "topup_ok"
    /\ DupPairs(last_items) = {}
    /\ \A e \in 1..Len(last_items) : HasFront(last_items[e])
    /\ LET incoming == Parsed[reply]
       IN  /\ \E i \in 1..Len(incoming) :
                /\ incoming[i] \notin Range(last_items)
                /\ \E e \in 1..Len(last_items) :
                      /\ incoming[i].front # last_items[e].front
                      /\ Lower(incoming[i].front) = Lower(last_items[e].front)
           /\ \E i \in 1..Len(incoming) : ~HasFront(incoming[i])
           /\ last_items[Len(last_items)] \in Range(incoming)

\* C6: a generate or a top-up whose generator call fails leaves the list,
\* the meta, the card index and show_back as they were.
C6_FailedCallChangesNothing ==
    [][action' \in {"generate_fail", "topup_fail"} =>
          /\ NoReply(CallFailed)
          /\ UNCHANGED <<last_items, last_meta, card_index, show_back>>]_vars

\* A top-up failed while the back of a card other than the first was shown.
C6_Witness ==
    /\ action = "topup_fail"
    /\ show_back
    /\ card_index > 0
    /\ last_items # <<>>

\* C7: a generate submitted with an empty or whitespace-only topic calls no
\* generator and leaves the list, the meta, the card index and show_back as
\* they were; so a generation that stores a meta had a topic with a
\* character that is not whitespace.
C7_BlankTopicChangesNothing ==
    [][/\ action' = "generate_blank" =>
            /\ NoReply(NoCall)
            /\ UNCHANGED <<last_items, last_meta, card_index, show_back>>
       /\ action' = "generate_ok" =>
            \E k \in 1..Len(last_meta'.topic) :
                last_meta'.topic[k] \notin {SP, TAB, NL, CR}]_vars

\* A blank topic was submitted while the back of a card other than the
\* first was shown.
C7_Witness ==
    /\ action = "generate_blank"
    /\ show_back
    /\ card_index > 0
    /\ last_items # <<>>

\* C8: right after a successful generate, a top-up and a removal,
\* card_index is 0 and show_back is false.
C8_ListChangeResetsCursor ==
    action \in {"generate_ok", "topup_ok", "remove"} =>
        (card_index = 0 /\ show_back = FALSE)

\* The row of the current card, not the first, was removed and cards remain.
C8_Witness ==
    /\ action = "remove"
    /\ before = "on_row"
    /\ last_items # <<>>

\* C9: on a list of n > 0 entries Next stores (index + 1) mod n and Previous
\* (index - 1 + n) mod n, and both store show_back = false; n times Next
\* leads back to the index, Previous on index 0 gives n - 1, and Previous
\* takes the index after Next back.
C9_NextAndPreviousWrap ==
    [][LET n == Len(last_items)
       IN  /\ action' = "fc_next" =>
                /\ card_index' = (card_index + 1) % n
                /\ show_back' = FALSE
                /\ PrevIndex(card_index', n) = card_index
                /\ IterNext(card_index, n, n) = card_index
           /\ action' = "fc_prev" =>
                /\ card_index' = (card_index - 1 + n) % n
                /\ show_back' = FALSE
                /\ (card_index = 0 => card_index' = n - 1)]_vars

\* Next was clicked on the last of three cards.
C9_Witness ==
    /\ action = "fc_next"
    /\ Len(last_items) = 3
    /\ card_index = 0

\* C10: the card button and the Flip button negate show_back and leave
\* card_index, the list and the meta as they were; a second flip would
\* store the show_back the first one found.
C10_FlipTogglesOnlyShowBack ==
    [][action' \in {"fc_card", "fc_flip"} =>
          /\ show_back' = ~show_back
          /\ ~show_back' = show_back
          /\ UNCHANGED <<card_index, last_items, last_meta>>]_vars

\* The card button turned the card back to its front, on a card other than
\* the first.
C10_Witness ==
    /\ action = "fc_card"
    /\ ~show_back
    /\ card_index > 0

(***************************************************************************)
(* The parser, stated without str.strip, str.find or str.split             *)
(***************************************************************************)
\* s without the white space at its two ends
Trimmed(s) ==
    LET ink == { i \in 1..Len(s) : s[i] \notin {" ", "\t", "\n", "\r"} }
    IN  IF ink = {} THEN <<>>
        ELSE SubSeq(s, CHOOSE i \in ink : \A j \in ink : i <= j,
                       CHOOSE i \in ink : \A j \in ink : j <= i)

RECURSIVE CutLines(_, _)
\* the lines of text, cur being the line read so far: a line ends at "\n",
\* at "\r\n" or at "\r", and at the end of the text when it is not empty
CutLines(text, cur) ==
    IF text = <<>> THEN (IF cur = <<>> THEN <<>> ELSE <<cur>>)
    ELSE IF Head(text) = "\n" THEN <<cur>> \o CutLines(Tail(text), <<>>)
    ELSE IF Head(text) = "\r"
         THEN <<cur>> \o CutLines(IF Len(text) > 1 /\ text[2] = "\n"
                                  THEN Tail(Tail(text)) ELSE Tail(text), <<>>)
    ELSE CutLines(Tail(text), Append(cur, Head(text)))

\* where " EM " starts in the trimmed line t, after the marker
SeparatorsAt(t) ==
    { p \in 3..(Len(t) - 2) : t[p] = " " /\ t[p + 1] = EMDASH /\ t[p + 2] = " " }

\* the trimmed line t starts with "- " and holds a separator after it
Qualifies(t) ==
    /\ Len(t) >= 2
    /\ t[1] = "-"
    /\ t[2] = " "
    /\ SeparatorsAt(t) # {}

\* the item of a qualifying trimmed line: the trimmed text before and after
\* the first separator
ItemOf(t) ==
    LET p == CHOOSE q \in SeparatorsAt(t) : \A o \in SeparatorsAt(t) : q <= o
    IN  [front |-> Trimmed(SubSeq(t, 3, p - 1)),
         back |-> Trimmed(SubSeq(t, p + 3, Len(t)))]

RECURSIVE ItemsOfLines(_)
ItemsOfLines(lines) ==
    IF lines = <<>> THEN <<>>
    ELSE (IF Qualifies(Trimmed(Head(lines))) THEN <<ItemOf(Trimmed(Head(lines)))>> ELSE <<>>)
         \o ItemsOfLines(Tail(lines))

\* items holds one item for each qualifying line of lines, in line order
OneItemPerQualifyingLine(items, lines) ==
    /\ items = ItemsOfLines(lines)
    /\ Len(items) = Cardinality({ k \in 1..Len(lines) : Qualifies(Trimmed(lines[k])) })

\* C11: the list a generation stores is, in line order, exactly one item for
\* each line of the reply that, trimmed, starts with "- " and holds " EM " in
\* what follows; the item's front and back are the trimmed texts before and
\* after the first separator; every other line gives no item.
C11_ParseEmitsOneItemPerQualifyingLine ==
    action = "generate_ok" => OneItemPerQualifyingLine(last_items, CutLines(raw_text, <<>>))

\* A reply of two lines, the first with two separators and an empty front,
\* was parsed into two items.
C11_Witness ==
    /\ action = "generate_ok"
    /\ raw_text = Marker \o Separator \o Separator \o <<"a", NL>> \o ItemLine
    /\ last_items = << [front |-> <<>>, back |-> <<EMDASH, SP, "a">>],
                       [front |-> <<"B">>, back |-> <<"a">>] >>

\* s has no white space at either end
IsTrimmed(s) == s = Trimmed(s)

\* C12 as stated: every item in the list has a front and a back that are
\* both trimmed and non-empty.
C12_ItemsTrimmedNonEmpty ==
    \A i \in 1..Len(last_items) :
        /\ IsTrimmed(last_items[i].front) /\ last_items[i].front # <<>>
        /\ IsTrimmed(last_items[i].back) /\ last_items[i].back # <<>>

\* C12: every item in the list, in every state that generate, top-up and
\* remove reach, has a trimmed front and a trimmed back, and its back is not
\* empty; its front can be empty.
C12_ItemsTrimmedBackNonEmpty ==
    \A i \in 1..Len(last_items) :
        /\ IsTrimmed(last_items[i].front)
        /\ IsTrimmed(last_items[i].back) /\ last_items[i].back # <<>>

\* After a removal the list holds an entry with an empty front next to the
\* entry of the line that had more spaces around its separator.
C12_Witness ==
    /\ action = "remove"
    /\ \E i \in 1..Len(last_items) :
          /\ last_items[i].front = <<>>
          /\ last_items[i].back = <<"z">>
    /\ \E i \in 1..Len(last_items) :
          /\ last_items[i].front = <<"P", TAB, "q">>
          /\ last_items[i].back = <<"y", SP, EMDASH, SP, "z">>

\* C13: a successful fresh generation leaves as the item list exactly the
\* parsed sequence of the generator's text, whatever the list held before
\* and also when that sequence is empty, and leaves as the meta exactly the
\* submitted type, language, level and topic.
C13_GenerateReplacesListAndMeta ==
    action = "generate_ok" =>
        /\ raw_text = RawText[reply]
        /\ last_items = Parsed[reply]
        /\ last_meta = [generate_type |-> request.generate_type,
                        target_language |-> request.target_language,
                        cefr_level |-> request.cefr_level,
                        topic |-> request.topic]

\* A generation found the cursor moved on an earlier list, parsed its reply
\* to zero items and stored the empty list with the meta of a Phrases
\* submission.
C13_Witness ==
    /\ action = "generate_ok"
    /\ before = "moved"
    /\ last_items = <<>>
    /\ parse_items(raw_text) = <<>>
    /\ last_meta = [generate_type |-> "Phrases", target_language |-> "Catalan",
                    cefr_level |-> "C1", topic |-> <<"a", SP, "b">>]

\* C14: only a successful fresh generation changes the meta (top-up, remove,
\* next, previous, flip and the failed or refused submissions leave it as it
\* is), and a top-up asks the generator with the stored meta's type, language,
\* level and topic and fills the list up to the cap of the stored type.
C14_MetaChangesOnlyOnGenerate ==
    [][ /\ (action' # "generate_ok" => last_meta' = last_meta)
        /\ (action' = "topup_ok" =>
               /\ request'.generate_type = last_meta.generate_type
               /\ request'.target_language = last_meta.target_language
               /\ request'.cefr_level = last_meta.cefr_level
               /\ request'.topic = last_meta.topic
               /\ request'.item_count + Len(last_items) = CapOf(last_meta)
               /\ Len(last_items') <= CapOf(last_meta)) ]_vars

\* A top-up after a removal asked for French verbs at A2 on the stored
\* topic, and the meta is still the one the generation stored.
C14_Witness ==
    /\ action = "topup_ok"
    /\ removes = 1
    /\ request.generate_type = "Verbs"
    /\ request.target_language = "French"
    /\ request.cefr_level = "A2"
    /\ request.topic = <<"s", "k", "i">>
    /\ last_meta = [generate_type |-> "Verbs", target_language |-> "French",
                    cefr_level |-> "A2", topic |-> <<"s", "k", "i">>]

\* the larger of 0 and n
AtLeastZero(n) == IF n < 0 THEN 0 ELSE n

\* C15: a top-up asks for max(0, desired_count - length) items, desired_count
\* being 10 for Phrases and 20 for the other types, and no top-up, answered
\* or failed, starts from a list that holds desired_count items or more.
C15_TopUpRequestsMissing ==
    [][ /\ (action' = "topup_ok" =>
               request'.item_count =
                   AtLeastZero((IF last_meta.generate_type = "Phrases" THEN 10 ELSE 20)
                               - Len(last_items)))
        /\ (action' \in {"topup_ok", "topup_fail"} =>
               Len(last_items) < (IF last_meta.generate_type = "Phrases" THEN 10 ELSE 20)) ]_vars

\* A top-up of a Phrases list of Few items asked for the 10 - Few missing
\* ones and filled the list, which leaves the button disabled.
C15_Witness ==
    /\ action = "topup_ok"
    /\ last_meta.generate_type = "Phrases"
    /\ request.item_count = 10 - Few
    /\ Len(last_items) = 10

\* C16: while the item list is empty no card is read, and from an empty list
\* no step is a click on the card, Flip, Previous or Next, and every step
\* that leaves the list empty leaves card_index and show_back as they are.
C16_EmptyListHasNoCard ==
    /\ [](last_items = <<>> => idx = <<>>)
    /\ [][ last_items = <<>> =>
             /\ action' \notin {"fc_card", "fc_flip", "fc_prev", "fc_next"}
             /\ (last_items' = <<>> =>
                    /\ card_index' = card_index
                    /\ show_back' = show_back) ]_vars

\* The only item of a list was removed while its back was showing: the list
\* is empty, no card is read and the cursor is at rest.
C16_Witness ==
    /\ action = "remove"
    /\ before = "moved"
    /\ last_items = <<>>
    /\ idx = <<>>
    /\ card_index = 0
    /\ ~show_back

\* C17: removing row i (0 <= i < n) of a list of n items leaves the n - 1
\* other entries, those before row i where they were and those after it one
\* row up, and leaves the meta as it is.
C17_RemoveDeletesExactlyOneRow ==
    [][ action' = "remove" =>
          /\ 0 <= rm' /\ rm' < Len(last_items)
          /\ Len(last_items') = Len(last_items) - 1
          /\ \A j \in 1..Len(last_items') :
                last_items'[j] = last_items[IF j <= rm' THEN j ELSE j + 1]
          /\ last_meta' = last_meta ]_vars

\* The second row of a list was removed: the first entry stayed and the
\* third moved up behind it.
C17_Witness ==
    /\ action = "remove"
    /\ rm = 1
    /\ Len(last_items) >= 2
    /\ last_items[1].front = Word(0)
    /\ last_items[2].front = Word(2)

\* C18: a top-up of a list in which no two entries with a non-empty front
\* share a normalized key leaves a list in which none do, and every entry a
\* top-up appends has a non-empty front.
C18_TopUpPreservesKeyUniqueness ==
    [][ action' = "topup_ok" =>
          /\ (DupPairs(last_items) = {} => DupPairs(last_items') = {})
          /\ \A j \in (Len(last_items) + 1)..Len(last_items') :
                last_items'[j].front # <<>> ]_vars

\* A list of the first word alone was topped up with the reply that repeats
\* that word in another case, holds two fronts with one key and two empty
\* fronts: Few entries were appended, all with a front and a key of their own.
C18_Witness ==
    /\ action = "topup_ok"
    /\ reply.v = "odd"
    /\ Len(last_items) = Few + 1
    /\ last_items[1].front = Word(0)
    /\ last_items[Few + 1].front = <<"p", SP, SP, "Q">>
    /\ Cardinality({ Key(last_items[i].front) : i \in 1..Len(last_items) }) = Few + 1
    /\ \A i \in 1..Len(last_items) : last_items[i].front # <<>>

\* C19: whatever text the generator returns, every item parse_items emits
\* from it has a non-empty back: a line whose text after the separator is
\* empty or white space gives no item.
C19_ParseNeverEmitsEmptyBack ==
    action = "generate_ok" =>
        /\ last_items = parse_items(raw_text)
        /\ \A i \in 1..Len(last_items) : last_items[i].back # <<>>

\* The reply was a line that ends in the separator and one more space, and
\* no item came of it.
C19_Witness ==
    /\ action = "generate_ok"
    /\ raw_text = Marker \o <<"a">> \o Separator \o <<SP>>
    /\ last_items = <<>>

====
